---- MODULE Spec2Model ----
(***************************************************************************)
(* Model of package httpctx (src/httpctx.go): start() runs runFunc on the  *)
(* calling goroutine while a second goroutine waits for ctx.Done(), calls  *)
(* the beforeShutdown hook and srv.Shutdown, and hands the result over the *)
(* unbuffered channel errc.                                                *)
(*                                                                         *)
(* Time is a discrete clock `now`.  Program steps take no time; time       *)
(* passes only while a goroutine waits (for the signal, for runFunc, for a *)
(* hook to finish, for Shutdown to drain or hit its deadline).             *)
(***************************************************************************)
EXTENDS Integers, Sequences, FiniteSets, TLC

\* ---------------------------------------------------------------- bounds
MaxTimeout == 1      \* largest timeout given to WithShutdownTimeout
MaxHook == 2         \* longest time a user hook runs
MaxBusy == 2         \* latest instant at which in-flight work is done
MaxCancelTime == 0   \* latest instant at which the signal first fires
MaxCancels == 2      \* how many times cancel() is called
MaxOpts == 2         \* how many options an entry point is given
MaxTime == 4         \* the instant at which the clock stops

\* ---------------------------------------------------------------- values
Nil == "nil"
ErrServerClosed == "http: Server closed"
DeadlineExceeded == "context deadline exceeded"
ErrListen == "listen: address already in use"
ErrAccept == "accept: failed"
ErrCert == "tls: failed to load key pair"

DefaultTimeout == 30

NoopHook == "noop"
NilFunc == "nil func"
UserBefore == "userBefore"
UserAfter == "userAfter"

EntryPoints == {"ListenAndServe", "ListenAndServeTLS", "Serve", "ServeTLS"}

\* context.Background(): a context without a deadline
Background == [bounded |-> FALSE, at |-> 0]

\* context.WithTimeout(context.Background(), d) created at instant t
WithTimeout(d, t) == [bounded |-> TRUE, at |-> t + d]

\* ---------------------------------------------------------------- options
WithShutdownTimeout(d) == [opt |-> "timeout", d |-> d, fn |-> NoopHook]
BeforeShutdown(fn) == [opt |-> "before", d |-> 0, fn |-> fn]
AfterShutdown(fn) == [opt |-> "after", d |-> 0, fn |-> fn]

Options ==
    {WithShutdownTimeout(d) : d \in -1..MaxTimeout}
        \cup {BeforeShutdown(UserBefore), AfterShutdown(UserAfter)}

OptSeqs == UNION {[1..n -> Options] : n \in 0..MaxOpts}

\* the options a caller can write, a nil callback included
ConfigOptions ==
    Options \cup {BeforeShutdown(NilFunc), AfterShutdown(NilFunc)}

ConfigOptSeqs == UNION {[1..n -> ConfigOptions] : n \in 0..MaxOpts}

\* calling a nil func panics
Callable(fn) == fn # NilFunc

\* variant of ApplyOption: a zero timeout is taken for "not set"
ApplyOptionSkipZero(o, c) ==
    CASE o.opt = "timeout" ->
             IF o.d = 0 THEN c ELSE [c EXCEPT !.shutdownTimeout = o.d]
      [] o.opt = "before" -> [c EXCEPT !.beforeShutdown = o.fn]
      [] o.opt = "after" -> [c EXCEPT !.afterShutdown = o.fn]

\* an Option is a func(*config): applying it writes one field
ApplyOption(o, c) ==
    CASE o.opt = "timeout" -> [c EXCEPT !.shutdownTimeout = o.d]
      [] o.opt = "before" -> [c EXCEPT !.beforeShutdown = o.fn]
      [] o.opt = "after" -> [c EXCEPT !.afterShutdown = o.fn]

RECURSIVE ApplyAll(_, _)
ApplyAll(opts, c) ==
    IF opts = <<>> THEN c ELSE ApplyAll(Tail(opts), ApplyOption(Head(opts), c))

\* the config newConfig starts from
DefaultConfig ==
    [beforeShutdown |-> NoopHook,
     afterShutdown |-> NoopHook,
     shutdownTimeout |-> DefaultTimeout]

newConfig(opts) == ApplyAll(opts, DefaultConfig)

\* ---------------------------------------------------------------- state
VARIABLES
    entry,        \* which entry point started the run
    cfg,          \* the config built by newConfig
    ctxDone,      \* ctx.Done() is closed
    cancels,      \* calls of cancel() so far
    now,          \* the clock
    busyUntil,    \* instant at which the server's in-flight work is done
    mainPc,       \* position of the goroutine that called start
    watcherPc,    \* position of the goroutine start spawns
    timeout,      \* the watcher's local `timeout` context
    runErr,       \* value runFunc returned
    shutdownErr,  \* value srv.Shutdown returned
    err,          \* the caller's local err, received from errc
    result,       \* value start returned
    hookEnd,      \* instant at which the running hook of each goroutine ends
    shutdownAt,   \* instant at which srv.Shutdown was called
    shutdownEndAt, \* instant at which srv.Shutdown returned
    observedAt,    \* instant at which the watcher got past <-ctx.Done()
    firedAt,      \* instant at which ctx.Done() was closed
    beforeArgs,   \* arguments of the calls of cfg.beforeShutdown
    afterArgs,    \* arguments of the calls of cfg.afterShutdown
    shutdownArgs, \* arguments of the calls of srv.Shutdown
    runCalls,     \* calls of runFunc
    events,       \* log of calls and returns, in order
    lateReturn,   \* runFunc returned after srv.Shutdown had been called
    firedEarly,   \* ctx.Done() was closed before runFunc was called
    optList,      \* newConfig: the options it was given
    optIdx        \* newConfig: how many of them the loop has applied

vars == <<entry, cfg, ctxDone, cancels, now, busyUntil, mainPc, watcherPc,
          timeout, runErr, shutdownErr, err, result, hookEnd, shutdownAt,
          shutdownEndAt, observedAt, firedAt, beforeArgs, afterArgs, shutdownArgs,
          runCalls, events, lateReturn, firedEarly, optList, optIdx>>

envVars == <<entry, cfg, busyUntil, optList, optIdx>>
sigVars == <<ctxDone, cancels, firedAt, firedEarly>>
mainVars == <<mainPc, runErr, err, result, afterArgs, runCalls, lateReturn>>
watcherVars == <<watcherPc, timeout, shutdownErr, shutdownAt, shutdownEndAt,
                 observedAt,
                 beforeArgs, shutdownArgs>>

\* ---------------------------------------------------------------- helpers
\* errors.Is(e, target) for the flat error values of the model
ErrorsIs(e, target) == e = target

\* variants of RunFailed: the negation of errors.Is lost; errors.Is not
\* asked; nil not told from a failure
RunFailedSentinelOnly(e) == e # Nil /\ ErrorsIs(e, ErrServerClosed)
RunFailedAnyError(e) == e # Nil
RunFailedOrNil(e) == ~ErrorsIs(e, ErrServerClosed)

\* the test of the if statement after runFunc returns
RunFailed(e) == e # Nil /\ ~ErrorsIs(e, ErrServerClosed)

\* variants of ShutdownContext: a zero timeout bounds the call; the
\* default timeout is used in place of the configured one
ShutdownContextZeroBounded(d, t) ==
    IF d >= 0 THEN WithTimeout(d, t) ELSE Background
ShutdownContextDefault(d, t) ==
    IF d > 0 THEN WithTimeout(DefaultTimeout, t) ELSE Background

\* the context handed to srv.Shutdown
ShutdownContext(d, t) == IF d > 0 THEN WithTimeout(d, t) ELSE Background

\* what the four entry points' run functions can return
RunErrors(e) ==
    CASE e = "ListenAndServe" -> {Nil, ErrServerClosed, ErrListen}
      [] e = "ListenAndServeTLS" -> {Nil, ErrServerClosed, ErrListen, ErrCert}
      [] e = "Serve" -> {Nil, ErrServerClosed, ErrAccept}
      [] e = "ServeTLS" -> {Nil, ErrServerClosed, ErrAccept, ErrCert}

\* how long a hook runs: the default no-op returns at once
HookDurations(fn) ==
    IF fn = NoopHook THEN {0} ELSE {d \in 0..MaxHook : now + d <= MaxTime}

Expired(c) == c.bounded /\ now >= c.at
Idle == now >= busyUntil

Count(ev) == Cardinality({i \in 1..Len(events) : events[i] = ev})
Pos(ev) == IF Count(ev) = 0 THEN 0
           ELSE CHOOSE i \in 1..Len(events) :
                    events[i] = ev /\ \A j \in 1..(i - 1) : events[j] # ev
Log(ev) == events' = Append(events, ev)

\* ---------------------------------------------------------------- Init
\* ListenAndServe, ListenAndServeTLS, Serve, ServeTLS: cfg := newConfig(opts...)
\* and start(ctx, cfg, srv, runFunc); start makes errc and spawns the watcher
Init ==
    /\ entry \in EntryPoints
    /\ \E opts \in OptSeqs : cfg = newConfig(opts)
    /\ busyUntil \in 0..MaxBusy
    /\ ctxDone = FALSE
    /\ cancels = 0
    /\ now = 0
    /\ mainPc = "start"
    /\ watcherPc = "wait"
    /\ timeout = Background
    /\ runErr = Nil
    /\ shutdownErr = Nil
    /\ err = Nil
    /\ result = Nil
    /\ hookEnd = [main |-> 0, watcher |-> 0]
    /\ shutdownAt = 0
    /\ shutdownEndAt = 0
    /\ observedAt = 0
    /\ firedAt = 0
    /\ beforeArgs = <<>>
    /\ afterArgs = <<>>
    /\ shutdownArgs = <<>>
    /\ runCalls = 0
    /\ events = <<>>
    /\ lateReturn = FALSE
    /\ firedEarly = FALSE
    /\ optList = <<>>
    /\ optIdx = 0

\* ---------------------------------------------------------------- caller
\* runFunc() is called
CallRunFunc ==
    /\ mainPc = "start"
    /\ mainPc' = "run"
    /\ runCalls' = runCalls + 1
    /\ UNCHANGED <<envVars, watcherVars, sigVars, now, runErr, lateReturn, err,
                   result, hookEnd, afterArgs, events>>

\* runFunc() returns e
RunFuncReturns(e) ==
    /\ mainPc = "run"
    /\ mainPc' = "check"
    /\ runErr' = e
    /\ lateReturn' = (Len(shutdownArgs) > 0)
    /\ UNCHANGED <<envVars, watcherVars, sigVars, now, err, result,
                   hookEnd, afterArgs, runCalls, events>>

\* variant of CheckRunErr: the hook is also called on the failure path
CheckRunErrWithHook ==
    /\ mainPc = "check"
    /\ IF runErr # Nil /\ ~ErrorsIs(runErr, ErrServerClosed)
       THEN /\ mainPc' = "done"
            /\ result' = runErr
            /\ afterArgs' = Append(afterArgs, runErr)
            /\ Log("returnRunErr")
       ELSE /\ mainPc' = "recv"
            /\ UNCHANGED <<result, events, afterArgs>>
    /\ UNCHANGED <<envVars, watcherVars, sigVars, now, runErr, lateReturn, err,
                   hookEnd, runCalls>>

\* if err != nil && !errors.Is(err, http.ErrServerClosed) { return err }
CheckRunErr ==
    /\ mainPc = "check"
    /\ IF RunFailed(runErr)
       THEN /\ mainPc' = "done"
            /\ result' = runErr
            /\ Log("returnRunErr")
       ELSE /\ mainPc' = "recv"
            /\ UNCHANGED <<result, events>>
    /\ UNCHANGED <<envVars, watcherVars, sigVars, now, runErr, lateReturn, err,
                   hookEnd, afterArgs, runCalls>>

\* variant of Handoff: the watcher's body is a loop
HandoffLoop ==
    /\ mainPc = "recv"
    /\ watcherPc = "send"
    /\ err' = shutdownErr
    /\ mainPc' = "callAfter"
    /\ watcherPc' = IF Len(shutdownArgs) < 2 THEN "wait" ELSE "done"
    /\ UNCHANGED <<observedAt, envVars, sigVars, now, runErr, lateReturn, result, hookEnd,
                   afterArgs, runCalls, timeout, shutdownErr, shutdownAt,
                   shutdownEndAt, beforeArgs, shutdownArgs, events>>

\* err := <-errc on the caller meets errc <- srv.Shutdown(timeout) on the
\* watcher; the watcher's function then ends (and its deferred cancel runs)
Handoff ==
    /\ mainPc = "recv"
    /\ watcherPc = "send"
    /\ err' = shutdownErr
    /\ mainPc' = "callAfter"
    /\ watcherPc' = "done"
    /\ UNCHANGED <<observedAt, envVars, sigVars, now, runErr, lateReturn, result, hookEnd,
                   afterArgs, runCalls, timeout, shutdownErr, shutdownAt,
                   shutdownEndAt, beforeArgs, shutdownArgs, events>>

\* cfg.afterShutdown(err) is called
CallAfterShutdown ==
    /\ mainPc = "callAfter"
    /\ mainPc' = "inAfter"
    /\ afterArgs' = Append(afterArgs, err)
    /\ \E d \in HookDurations(cfg.afterShutdown) :
           hookEnd' = [hookEnd EXCEPT !.main = now + d]
    /\ Log("afterStart")
    /\ UNCHANGED <<envVars, watcherVars, sigVars, now, runErr, lateReturn, err,
                   result, runCalls>>

\* cfg.afterShutdown(err) returns
AfterShutdownReturns ==
    /\ mainPc = "inAfter"
    /\ now >= hookEnd.main
    /\ mainPc' = "ret"
    /\ Log("afterEnd")
    /\ UNCHANGED <<envVars, watcherVars, sigVars, now, runErr, lateReturn, err,
                   result, hookEnd, afterArgs, runCalls>>

\* variant of ReturnErr: the value of runFunc is returned
ReturnRunErr ==
    /\ mainPc = "ret"
    /\ mainPc' = "done"
    /\ result' = runErr
    /\ Log("returnErr")
    /\ UNCHANGED <<envVars, watcherVars, sigVars, now, runErr, lateReturn, err,
                   hookEnd, afterArgs, runCalls>>

\* return err
ReturnErr ==
    /\ mainPc = "ret"
    /\ mainPc' = "done"
    /\ result' = err
    /\ Log("returnErr")
    /\ UNCHANGED <<envVars, watcherVars, sigVars, now, runErr, lateReturn, err,
                   hookEnd, afterArgs, runCalls>>

\* ---------------------------------------------------------------- watcher
\* variants of AwaitDone: the hook is skipped; the watcher also wakes up
\* when runFunc has returned
AwaitDoneSkipHook ==
    /\ watcherPc = "wait"
    /\ ctxDone
    /\ watcherPc' = "callShutdown"
    /\ observedAt' = now
    /\ timeout' = IF cfg.shutdownTimeout > 0
                  THEN WithTimeout(cfg.shutdownTimeout, now) ELSE Background
    /\ UNCHANGED <<envVars, mainVars, sigVars, now, shutdownErr,
                   hookEnd, shutdownAt, shutdownEndAt, beforeArgs,
                   shutdownArgs, events>>

\* variant of AwaitDone: a signal seen before runFunc was called goes
\* straight to the shutdown
AwaitDoneBeforeRun ==
    /\ watcherPc = "wait"
    /\ ctxDone
    /\ watcherPc' = IF mainPc = "start" THEN "callShutdown" ELSE "callBefore"
    /\ observedAt' = now
    /\ timeout' = IF cfg.shutdownTimeout > 0
                  THEN WithTimeout(cfg.shutdownTimeout, now) ELSE Background
    /\ UNCHANGED <<envVars, mainVars, sigVars, now, shutdownErr,
                   hookEnd, shutdownAt, shutdownEndAt, beforeArgs,
                   shutdownArgs, events>>

AwaitDoneOrRunReturned ==
    /\ watcherPc = "wait"
    /\ ctxDone \/ mainPc \notin {"start", "run"}
    /\ watcherPc' = "callBefore"
    /\ observedAt' = now
    /\ timeout' = IF cfg.shutdownTimeout > 0
                  THEN WithTimeout(cfg.shutdownTimeout, now) ELSE Background
    /\ UNCHANGED <<envVars, mainVars, sigVars, now, shutdownErr,
                   hookEnd, shutdownAt, shutdownEndAt, beforeArgs,
                   shutdownArgs, events>>

\* <-ctx.Done() and the construction of the timeout context
AwaitDone ==
    /\ watcherPc = "wait"
    /\ ctxDone
    /\ watcherPc' = "callBefore"
    /\ observedAt' = now
    /\ timeout' = ShutdownContext(cfg.shutdownTimeout, now)
    /\ UNCHANGED <<envVars, mainVars, sigVars, now, shutdownErr,
                   hookEnd, shutdownAt, shutdownEndAt, beforeArgs,
                   shutdownArgs, events>>

\* variant of CallBeforeShutdown: a disabled timeout is reported as the
\* default
CallBeforeShutdownDefault ==
    /\ watcherPc = "callBefore"
    /\ watcherPc' = "inBefore"
    /\ beforeArgs' = Append(beforeArgs,
                            IF cfg.shutdownTimeout > 0
                            THEN cfg.shutdownTimeout ELSE DefaultTimeout)
    /\ \E d \in HookDurations(cfg.beforeShutdown) :
           hookEnd' = [hookEnd EXCEPT !.watcher = now + d]
    /\ Log("beforeStart")
    /\ UNCHANGED <<observedAt, envVars, mainVars, sigVars, now, timeout,
                   shutdownErr, shutdownAt, shutdownEndAt, shutdownArgs>>

\* cfg.beforeShutdown(cfg.shutdownTimeout) is called
CallBeforeShutdown ==
    /\ watcherPc = "callBefore"
    /\ watcherPc' = "inBefore"
    /\ beforeArgs' = Append(beforeArgs, cfg.shutdownTimeout)
    /\ \E d \in HookDurations(cfg.beforeShutdown) :
           hookEnd' = [hookEnd EXCEPT !.watcher = now + d]
    /\ Log("beforeStart")
    /\ UNCHANGED <<observedAt, envVars, mainVars, sigVars, now, timeout,
                   shutdownErr, shutdownAt, shutdownEndAt, shutdownArgs>>

\* cfg.beforeShutdown returns
BeforeShutdownReturns ==
    /\ watcherPc = "inBefore"
    /\ now >= hookEnd.watcher
    /\ watcherPc' = "callShutdown"
    /\ Log("beforeEnd")
    /\ UNCHANGED <<observedAt, envVars, mainVars, sigVars, now, timeout,
                   shutdownErr, hookEnd, shutdownAt, shutdownEndAt,
                   beforeArgs, shutdownArgs>>

\* variant of CallShutdown: the deadline is counted from the call
CallShutdownFreshDeadline ==
    /\ watcherPc = "callShutdown"
    /\ watcherPc' = "inShutdown"
    /\ shutdownArgs' = Append(shutdownArgs,
                              IF cfg.shutdownTimeout > 0
                              THEN WithTimeout(cfg.shutdownTimeout, now)
                              ELSE Background)
    /\ shutdownAt' = now
    /\ Log("shutdownStart")
    /\ UNCHANGED <<observedAt, envVars, mainVars, sigVars, now, timeout,
                   shutdownErr, shutdownEndAt, hookEnd, beforeArgs>>

\* srv.Shutdown(timeout) is called
CallShutdown ==
    /\ watcherPc = "callShutdown"
    /\ watcherPc' = "inShutdown"
    /\ shutdownArgs' = Append(shutdownArgs, timeout)
    /\ shutdownAt' = now
    /\ Log("shutdownStart")
    /\ UNCHANGED <<observedAt, envVars, mainVars, sigVars, now, timeout,
                   shutdownErr, shutdownEndAt, hookEnd, beforeArgs>>

\* srv.Shutdown(timeout) returns: nil once no work is in flight, ctx.Err()
\* once the context is done.  Shutdown looks for idle connections first, so
\* a call that finds the server idle returns nil even if the context has
\* already expired; when both become true while it waits, either may win.
ShutdownResults ==
    (IF Idle THEN {Nil} ELSE {})
        \cup (IF Expired(timeout) /\ (~Idle \/ now > shutdownAt)
              THEN {DeadlineExceeded} ELSE {})

\* variant of ShutdownReturns: a call that hit its deadline is made again
ShutdownReturnsRetry ==
    /\ watcherPc = "inShutdown"
    /\ \E e \in ShutdownResults :
           /\ shutdownErr' = e
           /\ watcherPc' = IF e = DeadlineExceeded /\ Len(shutdownArgs) < 2
                           THEN "callShutdown" ELSE "send"
    /\ shutdownEndAt' = now
    /\ Log("shutdownEnd")
    /\ UNCHANGED <<observedAt, envVars, mainVars, sigVars, now, timeout, hookEnd,
                   shutdownAt, beforeArgs, shutdownArgs>>

ShutdownReturns ==
    /\ watcherPc = "inShutdown"
    /\ \E e \in ShutdownResults : shutdownErr' = e
    /\ watcherPc' = "send"
    /\ shutdownEndAt' = now
    /\ Log("shutdownEnd")
    /\ UNCHANGED <<observedAt, envVars, mainVars, sigVars, now, timeout, hookEnd,
                   shutdownAt, beforeArgs, shutdownArgs>>

\* ---------------------------------------------------------------- environment
\* the caller of the entry point cancels ctx; later calls change nothing
Cancel ==
    /\ cancels < MaxCancels
    /\ ctxDone \/ now <= MaxCancelTime
    /\ cancels' = cancels + 1
    /\ ctxDone' = TRUE
    /\ firedAt' = IF ctxDone THEN firedAt ELSE now
    /\ firedEarly' = IF ctxDone THEN firedEarly ELSE mainPc = "start"
    /\ UNCHANGED <<envVars, mainVars, watcherVars, now, hookEnd, events>>

\* a program step that is ready to run
Ready ==
    \/ mainPc \in {"start", "check", "callAfter", "ret"}
    \/ mainPc = "recv" /\ watcherPc = "send"
    \/ mainPc = "inAfter" /\ now >= hookEnd.main
    \/ watcherPc = "wait" /\ ctxDone
    \/ watcherPc \in {"callBefore", "callShutdown"}
    \/ watcherPc = "inBefore" /\ now >= hookEnd.watcher
    \/ watcherPc = "inShutdown" /\ ShutdownResults # {}

\* nothing is left that waits for time
Quiet == mainPc = "done" /\ watcherPc \in {"send", "done"}

Tick ==
    /\ now < MaxTime
    /\ ~Ready
    /\ ~Quiet
    /\ now' = now + 1
    /\ UNCHANGED <<envVars, mainVars, watcherVars, sigVars, hookEnd,
                   events>>

Next ==
    \/ CallRunFunc
    \/ \E e \in RunErrors(entry) : RunFuncReturns(e)
    \/ CheckRunErr
    \/ Handoff
    \/ CallAfterShutdown
    \/ AfterShutdownReturns
    \/ ReturnErr
    \/ AwaitDone
    \/ CallBeforeShutdown
    \/ BeforeShutdownReturns
    \/ CallShutdown
    \/ ShutdownReturns
    \/ Cancel
    \/ Tick

Spec == Init /\ [][Next]_vars

\* the steps of the goroutine that called start
MainStep ==
    \/ CallRunFunc
    \/ CheckRunErr
    \/ Handoff
    \/ CallAfterShutdown
    \/ AfterShutdownReturns
    \/ ReturnErr

\* the steps of the goroutine start spawns
WatcherStep ==
    \/ AwaitDone
    \/ CallBeforeShutdown
    \/ BeforeShutdownReturns
    \/ CallShutdown
    \/ ShutdownReturns

\* the serving unit's contract: runFunc returns once srv.Shutdown was called
RunFuncStops ==
    /\ Len(shutdownArgs) > 0
    /\ \E e \in RunErrors(entry) : RunFuncReturns(e)

\* Go runs every goroutine that can run, hooks and srv.Shutdown return,
\* time passes; nothing makes the caller cancel ctx or runFunc return early
Fairness ==
    /\ WF_vars(MainStep)
    /\ WF_vars(WatcherStep)
    /\ WF_vars(RunFuncStops)
    /\ WF_vars(Tick)

FairSpec == Spec /\ Fairness

\* ---------------------------------------------------------------- newConfig
\* newConfig on its own, one turn of its loop per step: an entry point has
\* been called with the options optList and start has not begun
ConfigInit ==
    /\ entry \in EntryPoints
    /\ optList \in ConfigOptSeqs
    /\ optIdx = 0
    /\ cfg = DefaultConfig
    /\ busyUntil = 0
    /\ ctxDone = FALSE
    /\ cancels = 0
    /\ now = 0
    /\ mainPc = "start"
    /\ watcherPc = "wait"
    /\ timeout = Background
    /\ runErr = Nil
    /\ shutdownErr = Nil
    /\ err = Nil
    /\ result = Nil
    /\ hookEnd = [main |-> 0, watcher |-> 0]
    /\ shutdownAt = 0
    /\ shutdownEndAt = 0
    /\ observedAt = 0
    /\ firedAt = 0
    /\ beforeArgs = <<>>
    /\ afterArgs = <<>>
    /\ shutdownArgs = <<>>
    /\ runCalls = 0
    /\ events = <<>>
    /\ lateReturn = FALSE
    /\ firedEarly = FALSE

\* for _, opt := range opts { opt(&cfg) }
ApplyNext ==
    /\ optIdx < Len(optList)
    /\ optIdx' = optIdx + 1
    /\ cfg' = ApplyOption(optList[optIdx + 1], cfg)
    /\ UNCHANGED <<entry, busyUntil, optList, sigVars, mainVars, watcherVars,
                   now, hookEnd, events>>

ConfigNext == ApplyNext

SpecConfig == ConfigInit /\ [][ConfigNext]_vars

\* ---------------------------------------------------------------- claims
ReturnedRunErr == mainPc = "done" /\ Count("returnRunErr") = 1
ReturnedShutdownErr == mainPc = "done" /\ Count("returnErr") = 1
RunReturned == mainPc \notin {"start", "run"}
OwnFailure == RunReturned /\ runErr \notin {Nil, ErrServerClosed}
ShutdownDone == watcherPc \in {"send", "done"}

TypeOK ==
    /\ entry \in EntryPoints
    /\ ctxDone \in BOOLEAN
    /\ now \in 0..MaxTime
    /\ mainPc \in {"start", "run", "check", "recv", "callAfter", "inAfter",
                   "ret", "done"}
    /\ watcherPc \in {"wait", "callBefore", "inBefore", "callShutdown",
                      "inShutdown", "send", "done"}

\* C1: when runFunc has returned an error other than nil and
\* http.ErrServerClosed, start returns that very error as its next step: it
\* never waits on errc and never calls afterShutdown; and as long as the
\* signal has not fired neither beforeShutdown nor srv.Shutdown is called.
C1_RunFailureReturned ==
    OwnFailure =>
        /\ mainPc \in {"check", "done"}
        /\ mainPc = "done" => result = runErr /\ Count("returnRunErr") = 1
        /\ afterArgs = <<>>
        /\ Count("afterStart") = 0
        /\ ~ctxDone => shutdownArgs = <<>> /\ beforeArgs = <<>>

C1_Witness ==
    /\ mainPc = "done"
    /\ ~ctxDone
    /\ result = ErrListen
    /\ shutdownArgs = <<>>
    /\ afterArgs = <<>>
    /\ now > 0

\* C2: when runFunc has returned nil or http.ErrServerClosed and start has
\* returned, there was exactly one call of srv.Shutdown, start returned the
\* value of that call, afterShutdown was called once with that same value,
\* and the value returned is not http.ErrServerClosed.
C2_ShutdownResultReturned ==
    (mainPc = "done" /\ runErr \in {Nil, ErrServerClosed}) =>
        /\ Len(shutdownArgs) = 1
        /\ Count("shutdownEnd") = 1
        /\ result = shutdownErr
        /\ afterArgs = <<shutdownErr>>
        /\ result # ErrServerClosed

C2_Witness ==
    /\ mainPc = "done"
    /\ runErr = ErrServerClosed
    /\ result = DeadlineExceeded
    /\ afterArgs = <<DeadlineExceeded>>

\* C3: in the log of calls and returns, beforeShutdown has returned before
\* srv.Shutdown is called, srv.Shutdown has returned before afterShutdown is
\* called, afterShutdown has returned before start returns the shutdown
\* result, and the two hooks are never running at the same time.
C3_HookOrder ==
    /\ Count("shutdownStart") > 0 =>
           /\ 0 < Pos("beforeStart")
           /\ Pos("beforeStart") < Pos("beforeEnd")
           /\ Pos("beforeEnd") < Pos("shutdownStart")
    /\ Count("afterStart") > 0 =>
           /\ 0 < Pos("shutdownStart")
           /\ Pos("shutdownStart") < Pos("shutdownEnd")
           /\ Pos("shutdownEnd") < Pos("afterStart")
    /\ Count("returnErr") > 0 =>
           /\ 0 < Pos("afterStart")
           /\ Pos("afterStart") < Pos("afterEnd")
           /\ Pos("afterEnd") < Pos("returnErr")
    /\ mainPc = "done" => Count("afterStart") = Count("afterEnd")
    /\ ~(watcherPc = "inBefore" /\ mainPc = "inAfter")
    /\ watcherPc = "inBefore" => Count("afterStart") = 0

C3_Witness ==
    /\ cfg.beforeShutdown = UserBefore
    /\ cfg.afterShutdown = UserAfter
    /\ events = <<"beforeStart", "beforeEnd", "shutdownStart", "shutdownEnd",
                  "afterStart", "afterEnd", "returnErr">>
    /\ now >= 2

\* srv.Shutdown returned before the deadline of its context passed
ShutdownWithinDeadline ==
    /\ ShutdownDone
    /\ shutdownArgs[1].bounded => shutdownEndAt < shutdownArgs[1].at

\* C4 as stated: once start has returned, afterShutdown has been called
\* exactly once, with nil when srv.Shutdown returned within its deadline.
C4_Original ==
    mainPc = "done" =>
        /\ Len(afterArgs) = 1
        /\ ShutdownWithinDeadline => afterArgs = <<Nil>>

\* C4 amended: afterShutdown is never called twice; once start has returned
\* it has been called exactly once if start returned the shutdown result
\* and not at all if start returned runFunc's own failure; when it was
\* called and srv.Shutdown returned within its deadline, its argument is nil.
C4_AfterShutdownOnce ==
    /\ Len(afterArgs) <= 1
    /\ Count("afterStart") = Len(afterArgs)
    /\ ReturnedShutdownErr => Len(afterArgs) = 1
    /\ ReturnedRunErr => Len(afterArgs) = 0
    /\ mainPc = "done" => ReturnedShutdownErr \/ ReturnedRunErr
    /\ (Len(afterArgs) = 1 /\ ShutdownWithinDeadline) => afterArgs = <<Nil>>

C4_Witness ==
    /\ ReturnedShutdownErr
    /\ afterArgs = <<Nil>>
    /\ shutdownArgs[1].bounded
    /\ shutdownEndAt < shutdownArgs[1].at

\* C5: beforeShutdown is never called twice, every call is given
\* cfg.shutdownTimeout as configured (zero included), and it has been called
\* exactly once whenever the watcher has gone past it: whenever srv.Shutdown
\* has been called or start has returned the shutdown result.
C5_BeforeShutdownOnce ==
    /\ Len(beforeArgs) <= 1
    /\ Count("beforeStart") = Len(beforeArgs)
    /\ \A i \in 1..Len(beforeArgs) : beforeArgs[i] = cfg.shutdownTimeout
    /\ watcherPc \notin {"wait", "callBefore"} => Len(beforeArgs) = 1
    /\ (Len(shutdownArgs) > 0 \/ ReturnedShutdownErr) => Len(beforeArgs) = 1

C5_Witness ==
    /\ cfg.shutdownTimeout = 0
    /\ beforeArgs = <<0>>
    /\ Len(shutdownArgs) = 1
    /\ mainPc = "run"

\* C6: if beforeShutdown or srv.Shutdown has been called, the signal has
\* fired; in particular neither is called because runFunc returned.
C6_ShutdownOnlyAfterSignal ==
    (Len(beforeArgs) > 0 \/ Len(shutdownArgs) > 0 \/ watcherPc # "wait")
        => ctxDone

C6_Witness ==
    /\ ctxDone
    /\ Len(shutdownArgs) = 1
    /\ mainPc = "recv"
    /\ runErr = Nil

\* C7: srv.Shutdown is called at most once and runFunc exactly once, also
\* after cancel() was called again and after a failure or a
\* deadline-exceeded result.
C7_AtMostOneShutdown ==
    /\ Len(shutdownArgs) <= 1
    /\ Count("shutdownStart") = Len(shutdownArgs)
    /\ runCalls <= 1
    /\ mainPc # "start" => runCalls = 1

C7_Witness ==
    /\ cancels >= 2
    /\ mainPc = "done"
    /\ watcherPc = "done"
    /\ shutdownErr = DeadlineExceeded
    /\ Len(shutdownArgs) = 1
    /\ runCalls = 1

\* C8: with shutdownTimeout = 0 the context given to srv.Shutdown has no
\* deadline, srv.Shutdown never returns context.DeadlineExceeded whatever
\* the time the in-flight work needs, it returns only once that work is
\* done, and the shutdown result start returns is nil.
C8_ZeroTimeoutUnbounded ==
    cfg.shutdownTimeout = 0 =>
        /\ \A i \in 1..Len(shutdownArgs) : ~shutdownArgs[i].bounded
        /\ shutdownErr # DeadlineExceeded
        /\ ShutdownDone => shutdownEndAt >= busyUntil
        /\ ReturnedShutdownErr => result = Nil /\ afterArgs = <<Nil>>

C8_Witness ==
    /\ cfg.shutdownTimeout = 0
    /\ ReturnedShutdownErr
    /\ result = Nil
    /\ shutdownAt < busyUntil
    /\ busyUntil >= 2

\* the in-flight work needs more than shutdownTimeout after the signal fired
SlowDrain ==
    /\ ctxDone
    /\ cfg.shutdownTimeout > 0
    /\ busyUntil > firedAt + cfg.shutdownTimeout

\* C9 as stated: with a positive shutdownTimeout and in-flight work that
\* needs longer than shutdownTimeout after the signal fired, the shutdown
\* result start returns is context.DeadlineExceeded, and afterShutdown was
\* given the same.
C9_Original ==
    (SlowDrain /\ ReturnedShutdownErr) =>
        result = DeadlineExceeded /\ afterArgs = <<DeadlineExceeded>>

\* C9 amended: if moreover that work is still in flight when srv.Shutdown
\* is called (beforeShutdown returned before the work was done), then
\* srv.Shutdown returns context.DeadlineExceeded at the later of its
\* deadline and its call, while the work is still in flight, and the
\* shutdown result start returns and hands to afterShutdown is that error.
C9_TimeoutExceeded ==
    (SlowDrain /\ Len(shutdownArgs) = 1 /\ shutdownAt < busyUntil) =>
        /\ shutdownArgs[1] = WithTimeout(cfg.shutdownTimeout, firedAt)
        /\ ShutdownDone =>
               /\ shutdownErr = DeadlineExceeded
               /\ shutdownEndAt < busyUntil
               /\ shutdownEndAt = IF shutdownAt > shutdownArgs[1].at
                                   THEN shutdownAt ELSE shutdownArgs[1].at
        /\ ReturnedShutdownErr =>
               result = DeadlineExceeded /\ afterArgs = <<DeadlineExceeded>>

C9_Witness ==
    /\ SlowDrain
    /\ shutdownAt < busyUntil
    /\ ReturnedShutdownErr
    /\ result = DeadlineExceeded
    /\ afterArgs = <<DeadlineExceeded>>
    /\ now < busyUntil

\* C10: start returns while the signal is unfired only by returning
\* runFunc's own failure; when runFunc has returned nil or
\* http.ErrServerClosed and the signal is unfired, start is still waiting
\* on errc; and start returns the shutdown result only after the signal has
\* fired and srv.Shutdown has returned.  This holds for each entry point.
C10_BlocksUntilCtxDone ==
    \A ep \in EntryPoints :
        entry = ep =>
            /\ (mainPc = "done" /\ ~ctxDone) =>
                   /\ ReturnedRunErr
                   /\ result = runErr
                   /\ runErr \notin {Nil, ErrServerClosed}
            /\ (RunReturned /\ runErr \in {Nil, ErrServerClosed}
                    /\ ~ctxDone) => mainPc \in {"check", "recv"}
            /\ (mainPc \in {"callAfter", "inAfter", "ret"}
                    \/ ReturnedShutdownErr) =>
                   ctxDone /\ Count("shutdownEnd") = 1

C10_Witness ==
    /\ entry = "ServeTLS"
    /\ mainPc = "recv"
    /\ runErr = ErrServerClosed
    /\ ~ctxDone
    /\ now > 0

\* C11 as stated: once the signal has fired, start eventually returns, with
\* exactly one result, and the watcher ends as well: neither goroutine is
\* left blocked on errc.
C11_Original ==
    ctxDone ~> /\ mainPc = "done"
               /\ Count("returnRunErr") + Count("returnErr") = 1
               /\ watcherPc = "done"

\* C12 as stated: when start has returned, runFunc has returned, no call of
\* srv.Shutdown is in progress, and none is started afterwards.
C12_Original ==
    /\ [](mainPc = "done" => RunReturned /\ watcherPc # "inShutdown")
    /\ [][mainPc = "done" => shutdownArgs' = shutdownArgs]_vars

\* C12 amended: when start has returned, runFunc has been called once and
\* has returned; if runFunc returned nil or http.ErrServerClosed, the one
\* call of srv.Shutdown has returned, the watcher has ended, and no call of
\* srv.Shutdown is started afterwards.  (After start returned runFunc's own
\* failure the watcher may still call srv.Shutdown.)
C12_StoppedOnReturn ==
    /\ [](mainPc = "done" => RunReturned /\ runCalls = 1)
    /\ []((mainPc = "done" /\ runErr \in {Nil, ErrServerClosed}) =>
              /\ Count("shutdownStart") = 1
              /\ Count("shutdownEnd") = 1
              /\ watcherPc = "done")
    /\ [][(mainPc = "done" /\ runErr \in {Nil, ErrServerClosed}) =>
              shutdownArgs' = shutdownArgs]_vars

C12_Witness ==
    /\ mainPc = "done"
    /\ runErr = ErrServerClosed
    /\ lateReturn
    /\ watcherPc = "done"
    /\ Count("shutdownEnd") = 1
    /\ shutdownEndAt > shutdownAt

\* C13 as stated: start returns runFunc's own failure only if runFunc
\* returned before srv.Shutdown was called; when runFunc returned after
\* that call, whatever it returned, start returns the result of
\* srv.Shutdown and has given it to afterShutdown.
C13_Original ==
    /\ ReturnedRunErr => ~lateReturn
    /\ (mainPc = "done" /\ lateReturn) =>
           /\ ReturnedShutdownErr
           /\ result = shutdownErr
           /\ afterArgs = <<shutdownErr>>

\* the place of the last option of a kind among the applied ones, or 0
LastIdx(kind) ==
    IF \E i \in 1..optIdx : optList[i].opt = kind
    THEN CHOOSE i \in 1..optIdx :
             /\ optList[i].opt = kind
             /\ \A j \in (i + 1)..optIdx : optList[j].opt # kind
    ELSE 0

\* C14: after any number of options, shutdownTimeout is the value of the
\* last WithShutdownTimeout applied (zero kept as zero) or 30 if there was
\* none, each hook is the function of the last option of its kind or the
\* no-op if there was none, and applying an option changes its own field
\* only.
C14_NewConfig ==
    /\ [](cfg.shutdownTimeout =
             (IF LastIdx("timeout") = 0 THEN 30
              ELSE optList[LastIdx("timeout")].d))
    /\ [](cfg.beforeShutdown =
             (IF LastIdx("before") = 0 THEN NoopHook
              ELSE optList[LastIdx("before")].fn))
    /\ [](cfg.afterShutdown =
             (IF LastIdx("after") = 0 THEN NoopHook
              ELSE optList[LastIdx("after")].fn))
    /\ [](optIdx = Len(optList) => cfg = newConfig(optList))
    /\ [][optIdx' = optIdx + 1 =>
            LET o == optList[optIdx'] IN
            /\ o.opt # "timeout" =>
                   cfg'.shutdownTimeout = cfg.shutdownTimeout
            /\ o.opt # "before" => cfg'.beforeShutdown = cfg.beforeShutdown
            /\ o.opt # "after" => cfg'.afterShutdown = cfg.afterShutdown]_vars

C14_Witness ==
    /\ optIdx = 2
    /\ optList = <<BeforeShutdown(UserBefore), WithShutdownTimeout(0)>>
    /\ cfg = [beforeShutdown |-> UserBefore, afterShutdown |-> NoopHook,
              shutdownTimeout |-> 0]

\* C20 as stated: whatever options newConfig was given, a nil callback
\* included, both hooks of the config it returns can be called.
C20_Original ==
    optIdx = Len(optList) =>
        Callable(cfg.beforeShutdown) /\ Callable(cfg.afterShutdown)

\* C15 as stated: once start has returned, with either result, neither
\* hook and no shutdown is invoked any more.
C15_Original ==
    [][mainPc = "done" =>
          /\ beforeArgs' = beforeArgs
          /\ afterArgs' = afterArgs
          /\ shutdownArgs' = shutdownArgs]_vars

\* C15: once start has returned the shutdown result, neither hook and no
\* shutdown is invoked any more; once it has returned runFunc's own
\* failure, afterShutdown has not been and is never invoked, while the
\* watcher may still invoke beforeShutdown and Shutdown, once each at most.
C15_TerminalStates ==
    /\ [][ReturnedShutdownErr =>
            /\ beforeArgs' = beforeArgs
            /\ afterArgs' = afterArgs
            /\ shutdownArgs' = shutdownArgs]_vars
    /\ [][mainPc = "done" => afterArgs' = afterArgs]_vars
    /\ [](ReturnedRunErr =>
            /\ afterArgs = <<>>
            /\ Len(beforeArgs) <= 1
            /\ Len(shutdownArgs) <= 1)

C15_Witness ==
    /\ ReturnedRunErr
    /\ Pos("returnRunErr") < Pos("beforeStart")
    /\ Pos("beforeStart") < Pos("shutdownStart")
    /\ Len(beforeArgs) = 1
    /\ Len(shutdownArgs) = 1
    /\ afterArgs = <<>>

\* C16 as stated: when start has returned runFunc's own failure and ctx is
\* done, the watcher eventually has made its one Shutdown call, got rid of
\* the result and ended; it does not stay at the send on errc.
C16_Original ==
    (ReturnedRunErr /\ ctxDone) ~>
        (watcherPc = "done" /\ Len(shutdownArgs) = 1)

\* C17 as stated: the context of every srv.Shutdown call has the deadline
\* (instant the watcher saw ctx done) + shutdownTimeout whenever
\* shutdownTimeout is not zero, negative values included, and has no
\* deadline only when shutdownTimeout is zero.
C17_Original ==
    \A i \in 1..Len(shutdownArgs) :
        IF cfg.shutdownTimeout = 0
        THEN ~shutdownArgs[i].bounded
        ELSE /\ shutdownArgs[i].bounded
             /\ shutdownArgs[i].at = observedAt + cfg.shutdownTimeout

\* C18: when ctx was done before runFunc was called and runFunc returned
\* http.ErrServerClosed, start ends with beforeShutdown and afterShutdown
\* called once each, beforeShutdown over before afterShutdown begins, and
\* returns the result of srv.Shutdown.
C18_EarlySignal ==
    (firedEarly /\ mainPc = "done" /\ runErr = ErrServerClosed) =>
        /\ Len(beforeArgs) = 1
        /\ Len(afterArgs) = 1
        /\ Count("beforeStart") = 1
        /\ Count("afterStart") = 1
        /\ Pos("beforeStart") < Pos("beforeEnd")
        /\ Pos("beforeEnd") < Pos("afterStart")
        /\ Pos("afterStart") < Pos("afterEnd")
        /\ Count("returnErr") = 1
        /\ Count("returnRunErr") = 0
        /\ Len(shutdownArgs) = 1
        /\ result = shutdownErr

C18_Witness ==
    /\ firedEarly
    /\ mainPc = "done"
    /\ runErr = ErrServerClosed
    /\ lateReturn
    /\ result = Nil
    /\ Len(beforeArgs) = 1
    /\ Len(afterArgs) = 1

\* C19: with shutdownTimeout = T > 0 the deadline is set when the watcher
\* sees ctx done and stays as it is through beforeShutdown: srv.Shutdown is
\* called with the deadline (instant the signal was seen) + T, so that a
\* beforeShutdown that takes T or longer has srv.Shutdown called with a
\* deadline that has already passed.
C19_DeadlineFixedAtSignal ==
    cfg.shutdownTimeout > 0 =>
        /\ watcherPc \in {"callBefore", "inBefore", "callShutdown"} =>
               /\ timeout.bounded
               /\ timeout.at = observedAt + cfg.shutdownTimeout
        /\ \A i \in 1..Len(shutdownArgs) :
               /\ shutdownArgs[i].bounded
               /\ shutdownArgs[i].at = observedAt + cfg.shutdownTimeout
               /\ shutdownAt - observedAt >= cfg.shutdownTimeout =>
                      shutdownArgs[i].at <= shutdownAt

C19_Witness ==
    /\ cfg.shutdownTimeout = 1
    /\ cfg.beforeShutdown = UserBefore
    /\ Len(shutdownArgs) = 1
    /\ shutdownAt = observedAt + 2
    /\ shutdownArgs[1].at < shutdownAt
====
